---- MODULE Spec2Model ----
(***************************************************************************)
(* canvas-reminder: the eligibility filter, the per-course collector, the  *)
(* line chunker and the notification step of canvas_test.py.               *)
(*                                                                         *)
(* Values.  A JSON field that may be absent or null is an option record    *)
(* [has, v].  A date string is a record [kind, local, off, aware]: kind    *)
(* "none" (absent or null), "empty" (""), "bad" (isoparse raises) or "iso" *)
(* (local wall-clock time `local`, UTC offset `off`, `aware` false when    *)
(* the string carries no offset).  A datetime is [t, aware]: for an aware  *)
(* one t is the UTC instant, for a naive one the wall-clock time.  Scores  *)
(* and points are integers; percentages are compared exactly.  Strings     *)
(* that are measured or joined are sequences of one-character strings.     *)
(***************************************************************************)
EXTENDS Integers, Sequences, FiniteSets, TLC

VARIABLES
    \* --- should_include_assignment applied to one drawn input
    fa, fpids, franges, fdone, fres,
    \* --- _chunk_lines applied to one drawn input
    clines, cmax, cdone, cgroups, cchunks,
    \* --- one run of main()
    webhook, cdata, pc, ci, pids, ranges, page, fetched, todo, results,
    assignFetches, payloads, chunkCalls, posted, failedCourses, resolved

vars == <<fa, fpids, franges, fdone, fres,
          clines, cmax, cdone, cgroups, cchunks,
          webhook, cdata, pc, ci, pids, ranges, page, fetched, todo, results,
          assignFetches, payloads, chunkCalls, posted, failedCourses, resolved>>

filterVars == <<fa, fpids, franges, fdone, fres>>
chunkVars == <<clines, cmax, cdone, cgroups, cchunks>>
runVars == <<webhook, cdata, pc, ci, pids, ranges, page, fetched, todo, results,
             assignFetches, payloads, chunkCalls, posted, failedCourses, resolved>>

----------------------------------------------------------------------------
(* Bounds of the model *)

MaxRanges == 2      \* longest list of date ranges handed to the filter
MaxLines == 3       \* longest list of lines handed to the chunker
MaxLineLen == 2     \* longest line handed to the chunker
MaxMaxLen == 4      \* largest max_len handed to the chunker
NumCourses == 2     \* courses returned by the favorites list

(* Program constants *)

low_score_threshold_percent == 50
max_len == 1900

----------------------------------------------------------------------------
(* Optional values and dates *)

None == [has |-> FALSE, v |-> 0]
Some(x) == [has |-> TRUE, v |-> x]

NoDate == [kind |-> "none", local |-> 0, off |-> 0, aware |-> FALSE]
EmptyDate == [kind |-> "empty", local |-> 0, off |-> 0, aware |-> FALSE]
BadDate == [kind |-> "bad", local |-> 0, off |-> 0, aware |-> FALSE]
Iso(l, o) == [kind |-> "iso", local |-> l, off |-> o, aware |-> TRUE]
IsoNaive(l) == [kind |-> "iso", local |-> l, off |-> 0, aware |-> FALSE]

\* Python truthiness of a date string field: None and "" are falsy.
Truthy(s) == s.kind \in {"bad", "iso"}

\* dateutil's isoparse: raises on a malformed string; an offset is applied
\* to the wall-clock time, a string without offset gives a naive datetime.
isoparse_ok(s) == s.kind = "iso"
isoparse(s) == [t |-> s.local - s.off, aware |-> s.aware]

\* x <= y on datetimes raises TypeError when exactly one of them is naive.
Comparable(x, y) == x.aware = y.aware

\* s <= d <= e as Python evaluates the chain: "raise", "true" or "false".
ChainLe(s, d, e) ==
    IF ~Comparable(s, d) THEN "raise"
    ELSE IF ~(s.t <= d.t) THEN "false"
    ELSE IF ~Comparable(d, e) THEN "raise"
    ELSE IF d.t <= e.t THEN "true" ELSE "false"

\* any(s <= d <= e for s, e in ranges): left to right, stops at the first
\* true, and an exception of one comparison ends the whole evaluation.
RECURSIVE AnyInRange(_, _)
AnyInRange(d, rs) ==
    IF rs = <<>> THEN "false"
    ELSE LET r == ChainLe(Head(rs).s, d, Head(rs).e)
         IN IF r = "false" THEN AnyInRange(d, Tail(rs)) ELSE r

----------------------------------------------------------------------------
(* should_include_assignment *)

EmptySub == [present |-> FALSE, missing |-> "None", late |-> "None", score |-> None]

\* sub = a.get("submission") or {}
SubOf(a) == IF a.submission.present THEN a.submission ELSE EmptySub

\* a variant that takes an absent grading_period_id as belonging
BelongsByPeriod_absent_ok(gp, period_ids) ==
    IF gp.has THEN gp.v \in period_ids ELSE TRUE

\* belongs = gp in period_ids if gp is not None else False
BelongsByPeriod(gp, period_ids) ==
    IF gp.has THEN gp.v \in period_ids ELSE FALSE

\* the date-range fallback, entered when `not belongs and ranges`
BelongsByDate(due, rs) ==
    IF rs = <<>> THEN FALSE
    ELSE IF ~Truthy(due) THEN FALSE
    ELSE IF ~isoparse_ok(due) THEN FALSE
    ELSE AnyInRange(isoparse(due), rs) = "true"

Belongs(a, period_ids, rs) ==
    BelongsByPeriod(a.grading_period_id, period_ids) \/ BelongsByDate(a.due_at, rs)

\* (score / points) * 100 <= threshold, for points # 0
PercentAtMost(score, points, thr) ==
    IF points > 0 THEN score * 100 <= thr * points
    ELSE score * 100 >= thr * points

\* a variant that scores an ungraded submission as 0
LowScore_default0(score, points, thr) ==
    IF points.has /\ points.v # 0
    THEN PercentAtMost(IF score.has THEN score.v ELSE 0, points.v, thr)
    ELSE FALSE

\* if score is not None and points: return (score / points) * 100 <= thr
\* (the guard keeps the division from ever raising)
LowScore(score, points, thr) ==
    IF score.has /\ points.has /\ points.v # 0
    THEN PercentAtMost(score.v, points.v, thr)
    ELSE FALSE

should_include_assignment(a, period_ids, rs, thr) ==
    IF ~Belongs(a, period_ids, rs) THEN FALSE
    ELSE IF SubOf(a).missing = "True" THEN TRUE
    ELSE LowScore(SubOf(a).score, a.points_possible, thr)
----------------------------------------------------------------------------
(* Inputs of the filter *)

SeqsUpTo(S, n) == UNION {[1..k -> S] : k \in 0..n}

FilterPeriodIds == {{}, {1}}
FilterGradingPeriods == {None, Some(1), Some(2)}
FilterTimes == 1..2
FilterRanges ==
    {[s |-> [t |-> a, aware |-> w], e |-> [t |-> b, aware |-> w]] :
        <<a, b, w>> \in {x \in FilterTimes \X FilterTimes \X BOOLEAN : x[1] <= x[2]}}
FilterDues ==
    {NoDate, EmptyDate, BadDate}
        \cup {IsoNaive(l) : l \in 0..3}
        \cup {Iso(l, 0) : l \in 0..3}
        \cup {Iso(l, 1) : l \in 1..4}
FilterScores == {None, Some(0), Some(1), Some(2)}
FilterPoints == {None, Some(0), Some(2)}
FilterSubs ==
    {EmptySub} \cup
    {[present |-> TRUE, missing |-> m, late |-> "None", score |-> sc] :
        <<m, sc>> \in {"None", "True", "False"} \X FilterScores}
FilterAssignments ==
    {[id |-> 1, grading_period_id |-> gp, due_at |-> due, submission |-> sub,
      points_possible |-> pts] :
        <<gp, due, sub, pts>> \in
            FilterGradingPeriods \X FilterDues \X FilterSubs \X FilterPoints}

FilterIdle ==
    /\ fa = [id |-> 1, grading_period_id |-> None, due_at |-> NoDate,
             submission |-> EmptySub, points_possible |-> None]
    /\ fpids = {}
    /\ franges = <<>>
    /\ fdone = FALSE
    /\ fres = FALSE

ChunkIdle ==
    /\ clines = <<>>
    /\ cmax = 0
    /\ cdone = FALSE
    /\ cgroups = <<>>
    /\ cchunks = <<>>

RunIdle ==
    /\ webhook = FALSE
    /\ cdata = <<>>
    /\ pc = "idle"
    /\ ci = 0
    /\ pids = <<>>
    /\ ranges = <<>>
    /\ page = 0
    /\ fetched = <<>>
    /\ todo = <<>>
    /\ results = <<>>
    /\ assignFetches = {}
    /\ payloads = <<>>
    /\ chunkCalls = 0
    /\ posted = 0
    /\ failedCourses = {}
    /\ resolved = {}

InitFilter ==
    /\ fa \in FilterAssignments
    /\ fpids \in FilterPeriodIds
    /\ franges \in SeqsUpTo(FilterRanges, MaxRanges)
    /\ fdone = FALSE
    /\ fres = FALSE
    /\ ChunkIdle
    /\ RunIdle

\* result = should_include_assignment(a, period_ids, ranges)
ApplyFilter ==
    /\ ~fdone
    /\ fdone' = TRUE
    /\ fres' = should_include_assignment(fa, fpids, franges, low_score_threshold_percent)
    /\ UNCHANGED <<fa, fpids, franges>>
    /\ UNCHANGED chunkVars
    /\ UNCHANGED runVars

NextFilter == ApplyFilter

SpecFilter == InitFilter /\ [][NextFilter]_vars
----------------------------------------------------------------------------
(* _chunk_lines *)

\* "\n".join(xs) for a list of character sequences
RECURSIVE JoinNl(_)
JoinNl(xs) ==
    IF xs = <<>> THEN <<>>
    ELSE IF Len(xs) = 1 THEN xs[1]
    ELSE xs[1] \o <<"\n">> \o JoinNl(Tail(xs))

\* a variant that forgets the joining newline
line_len_nosep(line) == Len(line)

\* line_len = len(line) + 1
line_len(line) == Len(line) + 1

\* The loop of _chunk_lines from line i on.  st = [chunks, groups, current,
\* current_len]; groups records, for each chunk, the lines it was joined from.
RECURSIVE ChunkLoop(_, _, _, _)
ChunkLoop(lines, i, st, maxlen) ==
    IF i > Len(lines) THEN st
    ELSE LET line == lines[i]
             flush == st.current # <<>> /\ st.current_len + line_len(line) > maxlen
             base == IF flush
                     THEN [chunks |-> Append(st.chunks, JoinNl(st.current)),
                           groups |-> Append(st.groups, st.current),
                           current |-> <<>>,
                           current_len |-> 0]
                     ELSE st
         IN ChunkLoop(lines, i + 1,
                      [base EXCEPT !.current = Append(base.current, line),
                                   !.current_len = base.current_len + line_len(line)],
                      maxlen)

ChunkRun(lines, maxlen) ==
    LET st == ChunkLoop(lines, 1,
                        [chunks |-> <<>>, groups |-> <<>>, current |-> <<>>,
                         current_len |-> 0],
                        maxlen)
    IN IF st.current # <<>>
       THEN [st EXCEPT !.chunks = Append(st.chunks, JoinNl(st.current)),
                       !.groups = Append(st.groups, st.current)]
       ELSE st

_chunk_lines(lines, maxlen) == ChunkRun(lines, maxlen).chunks

(* Inputs of the chunker *)

ChunkAlphabet == {"a", "b"}
ChunkLineSet == SeqsUpTo(ChunkAlphabet, MaxLineLen)

InitChunk ==
    /\ clines \in SeqsUpTo(ChunkLineSet, MaxLines)
    /\ cmax \in 0..MaxMaxLen
    /\ cdone = FALSE
    /\ cgroups = <<>>
    /\ cchunks = <<>>
    /\ FilterIdle
    /\ RunIdle

\* chunks = _chunk_lines(lines, max_len)
ApplyChunk ==
    /\ ~cdone
    /\ cdone' = TRUE
    /\ cchunks' = _chunk_lines(clines, cmax)
    /\ cgroups' = ChunkRun(clines, cmax).groups
    /\ UNCHANGED <<clines, cmax>>
    /\ UNCHANGED filterVars
    /\ UNCHANGED runVars

NextChunk == ApplyChunk

SpecChunk == InitChunk /\ [][NextChunk]_vars

----------------------------------------------------------------------------
(* Properties of _chunk_lines (SpecChunk) *)

RECURSIVE Flatten(_)
Flatten(xss) == IF xss = <<>> THEN <<>> ELSE Head(xss) \o Flatten(Tail(xss))

\* C7: the chunks joined by newlines are the input lines joined by newlines,
\* every chunk is the join of a run of consecutive whole input lines, the runs
\* in order make up the input, and a chunk longer than max_len is a single
\* line that is itself longer than max_len.
C7_ChunkLosslessBounded ==
    cdone =>
        /\ JoinNl(cchunks) = JoinNl(clines)
        /\ Flatten(cgroups) = clines
        /\ Len(cgroups) = Len(cchunks)
        /\ \A i \in 1..Len(cchunks) :
              /\ cgroups[i] # <<>>
              /\ cchunks[i] = JoinNl(cgroups[i])
              /\ Len(cchunks[i]) > cmax =>
                    (Len(cgroups[i]) = 1 /\ Len(cgroups[i][1]) > cmax)

C7_Witness ==
    /\ cdone
    /\ Len(cchunks) >= 2
    /\ Len(cgroups[1]) >= 2
    /\ Len(cchunks[1]) = cmax - 1
    /\ Len(cchunks[2]) >= 1

----------------------------------------------------------------------------
(* Grading period helpers *)

\* str.upper() on the letters that occur in the titles of the model
UpperChar(c) ==
    CASE c = "q" -> "Q" [] c = "u" -> "U" [] c = "a" -> "A" [] c = "r" -> "R"
      [] c = "t" -> "T" [] c = "e" -> "E" [] c = "h" -> "H" [] c = "d" -> "D"
      [] OTHER -> c

Upper(t) == [i \in 1..Len(t) |-> UpperChar(t[i])]

\* k in t, for character sequences
Contains(t, k) ==
    \E i \in 1..(Len(t) - Len(k) + 1) : SubSeq(t, i, i + Len(k) - 1) = k

Keywords ==
    {<<"Q", "3">>, <<"Q", "4">>, <<"Q", "U", "A", "R", "T", "E", "R", " ", "3">>, <<"Q", "U", "A", "R", "T", "E", "R", " ", "4">>, <<"3", "R", "D", " ", "Q", "U", "A", "R", "T", "E", "R">>, <<"4", "T", "H", " ", "Q", "U", "A", "R", "T", "E", "R">>}

\* title is an option of a character sequence; (title or "").upper()
_is_q3_q4(title) ==
    LET t == IF title.has THEN Upper(title.s) ELSE <<>>
    IN \E k \in Keywords : Contains(t, k)

\* periods = payload.get("grading_periods", payload) if dict else payload;
\* keep the periods whose title matches
_get_q3_q4_periods(payload) ==
    SelectSeq(payload.periods, LAMBDA p : _is_q3_q4(p.title))

RECURSIVE IdsOf(_)
IdsOf(ps) ==
    IF ps = <<>> THEN {}
    ELSE (IF Head(ps).id.has THEN {Head(ps).id.v} ELSE {}) \cup IdsOf(Tail(ps))

\* set(p["id"] for p in matching periods if "id" in p)
get_q3_q4_period_ids(payload) == IdsOf(_get_q3_q4_periods(payload))

RECURSIVE RangesOf(_)
RangesOf(ps) ==
    IF ps = <<>> THEN <<>>
    ELSE LET p == Head(ps)
             keep == /\ Truthy(p.start_date) /\ Truthy(p.end_date)
                     /\ isoparse_ok(p.start_date) /\ isoparse_ok(p.end_date)
         IN (IF keep
             THEN <<[s |-> isoparse(p.start_date), e |-> isoparse(p.end_date)]>>
             ELSE <<>>) \o RangesOf(Tail(ps))

get_q3_q4_date_ranges(payload) == RangesOf(_get_q3_q4_periods(payload))

----------------------------------------------------------------------------
(* Records and their lines *)

NoText == [has |-> FALSE, s |-> <<>>]
Text(cs) == [has |-> TRUE, s |-> cs]

\* round(x, 2) of num/den * 100, in hundredths, ties to even (den > 0, num >= 0)
RoundHundredths(num, den) ==
    LET q == (num * 10000) \div den
        r == (num * 10000) % den
    IN IF 2 * r > den \/ (2 * r = den /\ q % 2 = 1) THEN q + 1 ELSE q

Status(sub) ==
    IF sub.missing = "True" THEN "missing"
    ELSE IF sub.late = "True" THEN "late"
    ELSE "low_score"

_assignment_to_record(course, a) ==
    LET sub == SubOf(a)
        score == sub.score
        pts == a.points_possible
    IN [course_id |-> course.id,
        course_name |-> IF course.name.has THEN course.name.s ELSE <<"U", "n", "n", "a", "m", "e", "d", " ", "C", "o", "u", "r", "s", "e">>,
        assignment_id |-> a.id,
        assignment_name |-> IF a.name.has THEN a.name.s ELSE <<"U", "n", "n", "a", "m", "e", "d", " ", "A", "s", "s", "i", "g", "n", "m", "e", "n", "t">>,
        status |-> Status(sub),
        score |-> score,
        points_possible |-> pts,
        percent |-> IF score.has /\ pts.has /\ pts.v # 0
                    THEN Some(RoundHundredths(score.v, pts.v))
                    ELSE None,
        due_at |-> a.due_at,
        url |-> a.html_url]

DigitChars == <<"0", "1", "2", "3", "4", "5", "6", "7", "8", "9">>

RECURSIVE Decimal(_)
Decimal(n) ==
    IF n < 10 THEN <<DigitChars[n + 1]>>
    ELSE Decimal(n \div 10) \o <<DigitChars[(n % 10) + 1]>>

\* "N/A" or f"{percent:.2f}%"
_format_percent(record) ==
    IF ~record.percent.has THEN <<"N", "/", "A">>
    ELSE LET h == record.percent.v
         IN Decimal(h \div 100) \o <<".">>
                \o <<DigitChars[((h \div 10) % 10) + 1], DigitChars[(h % 10) + 1], "%">>

StatusText(st) ==
    CASE st = "missing" -> <<"m", "i", "s", "s", "i", "n", "g">>
      [] st = "late" -> <<"l", "a", "t", "e">>
      [] OTHER -> <<"l", "o", "w", " ", "s", "c", "o", "r", "e">>

_format_assignment_line(record) ==
    LET line == <<"*", "*">> \o record.course_name \o <<"*", "*", " ", "U+2014", " ">>
                    \o record.assignment_name \o <<" ", "(">> \o StatusText(record.status)
                    \o <<",", " ">> \o _format_percent(record) \o <<")">>
    IN IF record.url.has /\ record.url.s # <<>>
       THEN line \o <<" ", "<">> \o record.url.s \o <<">">>
       ELSE line

RECURSIVE MapLines(_)
MapLines(records) ==
    IF records = <<>> THEN <<>>
    ELSE <<_format_assignment_line(Head(records))>> \o MapLines(Tail(records))

AllClearMessage ==
    <<"U+2705", " ", "N", "o", " ", "m", "i", "s", "s", "i", "n", "g", " ", "o", "r", " ", "b", "e", "l", "o", "w", " ", "5", "0", "%", " ", "a", "s", "s", "i", "g", "n", "m", "e", "n", "t", "s", " ", "f", "o", "u", "n", "d", ".">>

\* a variant without the empty-list branch
BuildPayloads_always_chunk(records) == _chunk_lines(MapLines(records), max_len)

\* the payloads send_discord_notifications builds once a webhook is configured
BuildPayloads(records) ==
    IF records = <<>> THEN <<AllClearMessage>>
    ELSE _chunk_lines(MapLines(records), max_len)

----------------------------------------------------------------------------
(* What the LMS serves in a run: grading periods and assignment pages *)

Period(i, title, sd, ed) == [id |-> i, title |-> title, start_date |-> sd, end_date |-> ed]

Sub(m, l, sc) == [present |-> TRUE, missing |-> m, late |-> l, score |-> sc]

Assignment(i, nm, gp, due, sub, pts, url) ==
    [id |-> i, name |-> nm, grading_period_id |-> gp, due_at |-> due,
     submission |-> sub, points_possible |-> pts, html_url |-> url]

\* missing, in period 1
AMissing == Assignment(1, Text(<<"L", "a", "b">>), Some(1), NoDate, Sub("True", "None", None),
                       Some(10), Text(<<"u">>))
\* 90 percent, in period 1
AGood == Assignment(2, Text(<<"Q", "u", "i", "z">>), Some(1), Iso(2, 0), Sub("False", "None", Some(9)),
                    Some(10), NoText)
\* late, 1 of 3 points, no declared period, due at instant 2
ALate == Assignment(3, NoText, None, Iso(3, 1), Sub("None", "True", Some(1)),
                    Some(3), NoText)
\* missing, declared in another period, due after every range
AOther == Assignment(4, Text(<<"O", "l", "d">>), Some(2), Iso(5, 0), Sub("True", "None", None),
                     None, NoText)
\* exactly 50 percent, in period 1
AHalf == Assignment(5, Text(<<"E", "s", "s", "a", "y">>), Some(1), BadDate, Sub("False", "None", Some(5)),
                    Some(10), NoText)
\* no submission object at all, in period 1
ABare == Assignment(6, Text(<<"D", "r", "a", "f", "t">>), Some(1), EmptyDate, EmptySub, Some(10), NoText)

\* a bare list with one Q3 period that has an id and both dates
CourseById ==
    [name |-> Text(<<"B", "i", "o">>),
     periods |-> [wrapped |-> FALSE,
                  periods |-> <<Period(Some(1), Text(<<"q", "3">>), Iso(1, 0), Iso(3, 0)),
                                Period(Some(2), Text(<<"Q", "1">>), Iso(4, 0), Iso(6, 0))>>],
     pages |-> <<<<AMissing, AGood>>, <<ALate, AOther>>>>]
\* a wrapped list with no matching title: no window
CourseNoWindow ==
    [name |-> NoText,
     periods |-> [wrapped |-> TRUE,
                  periods |-> <<Period(Some(1), Text(<<"Q", "1">>), Iso(1, 0), Iso(3, 0)),
                                Period(Some(2), NoText, Iso(1, 0), Iso(3, 0))>>],
     pages |-> <<<<AMissing, ALate>>>>]
\* a matching period without id: ranges only
CourseByDate ==
    [name |-> Text(<<"A", "r", "t">>),
     periods |-> [wrapped |-> TRUE,
                  periods |-> <<Period(None, Text(<<"Q", "u", "a", "r", "t", "e", "r", " ", "4">>), Iso(2, 0), Iso(3, 0))>>],
     pages |-> <<<<ALate, AOther, AMissing>>>>]
\* a matching period with an id and an unparsable start date: ids only,
\* and nothing reportable among its assignments
CourseIdsOnly ==
    [name |-> Text(<<"P", "E">>),
     periods |-> [wrapped |-> FALSE,
                  periods |-> <<Period(Some(1), Text(<<"4", "t", "h", " ", "q", "u", "a", "r", "t", "e", "r">>), BadDate, Iso(3, 0))>>],
     pages |-> <<<<AGood>>, <<ABare, AOther>>>>]
\* ids only, with a boundary score
CourseHalf ==
    [name |-> Text(<<"M", "a", "t", "h">>),
     periods |-> [wrapped |-> FALSE,
                  periods |-> <<Period(Some(1), Text(<<"Q", "4">>), NoDate, EmptyDate)>>],
     pages |-> <<<<AHalf, AGood>>>>]

CourseKinds == {CourseById, CourseNoWindow, CourseByDate, CourseIdsOnly, CourseHalf}

\* the course object of the favorites list at position k
Course(k) == [id |-> k, name |-> cdata[k].name]

----------------------------------------------------------------------------
(* One run of main() *)

InitRun ==
    /\ webhook \in BOOLEAN
    /\ cdata \in SeqsUpTo(CourseKinds, NumCourses)
    /\ pc = "get_courses"
    /\ ci = 0
    /\ pids = [k \in 1..Len(cdata) |-> {}]
    /\ ranges = [k \in 1..Len(cdata) |-> <<>>]
    /\ resolved = {}
    /\ page = 0
    /\ fetched = <<>>
    /\ todo = <<>>
    /\ results = <<>>
    /\ assignFetches = {}
    /\ payloads = <<>>
    /\ chunkCalls = 0
    /\ posted = 0
    /\ failedCourses = {}
    /\ FilterIdle
    /\ ChunkIdle

\* the `for c in courses` loop moves to the course after k, or collect_results
\* returns and main goes on to the notification
AfterCourse(k) == IF k < Len(cdata) THEN "period_ids" ELSE "notify"
NextCourse(k) == IF k < Len(cdata) THEN k + 1 ELSE k

\* a variant that lets the error leave collect_results (main returns 1)
OnCourseError_abort(k) == "exit1"

\* except RuntimeError: continue
OnCourseError(k) == AfterCourse(k)

\* a variant without the early return
HasWindow_always(p, r) == TRUE

\* if not pids and not ranges: return []
HasWindow(p, r) == p # {} \/ r # <<>>

\* a variant that returns every fetched assignment
KeepIncluded_all(as, p, r) == as

\* [a for a in get_all_pages(url) if should_include_assignment(a, pids, ranges)]
KeepIncluded(as, p, r) ==
    SelectSeq(as, LAMBDA a : should_include_assignment(a, p, r, low_score_threshold_percent))

\* courses = get_courses() succeeds
GetCoursesOk ==
    /\ pc = "get_courses"
    /\ pc' = IF cdata = <<>> THEN "notify" ELSE "period_ids"
    /\ ci' = IF cdata = <<>> THEN 0 ELSE 1
    /\ UNCHANGED <<webhook, cdata, pids, ranges, resolved, page, fetched, todo, results,
                   assignFetches, payloads, chunkCalls, posted, failedCourses>>
    /\ UNCHANGED filterVars
    /\ UNCHANGED chunkVars

\* get_courses() raises: main prints the error and returns 1
GetCoursesFail ==
    /\ pc = "get_courses"
    /\ pc' = "exit1"
    /\ UNCHANGED <<webhook, cdata, ci, pids, ranges, resolved, page, fetched, todo,
                   results, assignFetches, payloads, chunkCalls, posted, failedCourses>>
    /\ UNCHANGED filterVars
    /\ UNCHANGED chunkVars

\* get_assignments: pids = set(get_q3_q4_period_ids(course_id))
FetchPeriodIdsOk ==
    /\ pc = "period_ids"
    /\ pids' = [pids EXCEPT ![ci] = get_q3_q4_period_ids(cdata[ci].periods)]
    /\ pc' = "date_ranges"
    /\ UNCHANGED <<webhook, cdata, ci, ranges, resolved, page, fetched, todo, results,
                   assignFetches, payloads, chunkCalls, posted, failedCourses>>
    /\ UNCHANGED filterVars
    /\ UNCHANGED chunkVars

\* a failed request of the course: the RuntimeError reaches collect_results
CourseFails(from) ==
    /\ pc = from
    /\ failedCourses' = failedCourses \cup {ci}
    /\ pc' = OnCourseError(ci)
    /\ ci' = NextCourse(ci)
    /\ page' = 0
    /\ fetched' = <<>>
    /\ UNCHANGED <<webhook, cdata, pids, ranges, resolved, todo, results,
                   payloads, chunkCalls, posted>>
    /\ UNCHANGED filterVars
    /\ UNCHANGED chunkVars

FetchPeriodIdsFail ==
    /\ CourseFails("period_ids")
    /\ UNCHANGED assignFetches

\* ranges = get_q3_q4_date_ranges(course_id), then the no-window early return
FetchDateRangesOk ==
    /\ pc = "date_ranges"
    /\ LET r == get_q3_q4_date_ranges(cdata[ci].periods)
       IN /\ ranges' = [ranges EXCEPT ![ci] = r]
          /\ resolved' = resolved \cup {ci}
          /\ IF HasWindow(pids[ci], r)
             THEN /\ pc' = "pages"
                  /\ page' = 1
                  /\ ci' = ci
             ELSE /\ pc' = AfterCourse(ci)
                  /\ ci' = NextCourse(ci)
                  /\ page' = 0
    /\ UNCHANGED <<webhook, cdata, pids, fetched, todo, results,
                   assignFetches, payloads, chunkCalls, posted, failedCourses>>
    /\ UNCHANGED filterVars
    /\ UNCHANGED chunkVars

FetchDateRangesFail ==
    /\ CourseFails("date_ranges")
    /\ UNCHANGED assignFetches

\* get_all_pages: one request_json of the assignments url succeeds; after the
\* last page the list is filtered
FetchPageOk ==
    /\ pc = "pages"
    /\ assignFetches' = assignFetches \cup {ci}
    /\ LET all == fetched \o cdata[ci].pages[page]
       IN IF page < Len(cdata[ci].pages)
          THEN /\ fetched' = all
               /\ page' = page + 1
               /\ pc' = "pages"
               /\ todo' = todo
          ELSE /\ fetched' = <<>>
               /\ page' = 0
               /\ pc' = "append"
               /\ todo' = KeepIncluded(all, pids[ci], ranges[ci])
    /\ UNCHANGED <<webhook, cdata, ci, pids, ranges, resolved, results,
                   payloads, chunkCalls, posted, failedCourses>>
    /\ UNCHANGED filterVars
    /\ UNCHANGED chunkVars

FetchPageFail ==
    /\ CourseFails("pages")
    /\ assignFetches' = assignFetches \cup {ci}

\* for a in assignments: results.append(_assignment_to_record(c, a))
AppendRecord ==
    /\ pc = "append"
    /\ todo # <<>>
    /\ results' = Append(results, _assignment_to_record(Course(ci), Head(todo)))
    /\ todo' = Tail(todo)
    /\ UNCHANGED <<webhook, cdata, pc, ci, pids, ranges, resolved, page, fetched,
                   assignFetches, payloads, chunkCalls, posted, failedCourses>>
    /\ UNCHANGED filterVars
    /\ UNCHANGED chunkVars

\* the inner loop is exhausted: next course
CourseDone ==
    /\ pc = "append"
    /\ todo = <<>>
    /\ pc' = AfterCourse(ci)
    /\ ci' = NextCourse(ci)
    /\ UNCHANGED <<webhook, cdata, pids, ranges, resolved, page, fetched, todo, results,
                   assignFetches, payloads, chunkCalls, posted, failedCourses>>
    /\ UNCHANGED filterVars
    /\ UNCHANGED chunkVars

\* send_discord_notifications without a webhook url: prints a notice, returns
NotifyNoWebhook ==
    /\ pc = "notify"
    /\ ~webhook
    /\ pc' = "exit0"
    /\ UNCHANGED <<webhook, cdata, ci, pids, ranges, resolved, page, fetched, todo,
                   results, assignFetches, payloads, chunkCalls, posted, failedCourses>>
    /\ UNCHANGED filterVars
    /\ UNCHANGED chunkVars

\* send_discord_notifications with a webhook url: builds the payloads
NotifyBuild ==
    /\ pc = "notify"
    /\ webhook
    /\ payloads' = BuildPayloads(results)
    /\ chunkCalls' = IF results = <<>> THEN chunkCalls ELSE chunkCalls + 1
    /\ posted' = 0
    /\ pc' = IF BuildPayloads(results) = <<>> THEN "exit0" ELSE "post"
    /\ UNCHANGED <<webhook, cdata, ci, pids, ranges, resolved, page, fetched, todo,
                   results, assignFetches, failedCourses>>
    /\ UNCHANGED filterVars
    /\ UNCHANGED chunkVars

\* requests.post of the next payload succeeds
PostOk ==
    /\ pc = "post"
    /\ posted < Len(payloads)
    /\ posted' = posted + 1
    /\ pc' = IF posted + 1 = Len(payloads) THEN "exit0" ELSE "post"
    /\ UNCHANGED <<webhook, cdata, ci, pids, ranges, resolved, page, fetched, todo,
                   results, assignFetches, payloads, chunkCalls, failedCourses>>
    /\ UNCHANGED filterVars
    /\ UNCHANGED chunkVars

\* requests.post fails: RuntimeError leaves main
PostFail ==
    /\ pc = "post"
    /\ posted < Len(payloads)
    /\ pc' = "crash"
    /\ UNCHANGED <<webhook, cdata, ci, pids, ranges, resolved, page, fetched, todo,
                   results, assignFetches, payloads, chunkCalls, posted, failedCourses>>
    /\ UNCHANGED filterVars
    /\ UNCHANGED chunkVars

Next ==
    \/ GetCoursesOk
    \/ GetCoursesFail
    \/ FetchPeriodIdsOk
    \/ FetchPeriodIdsFail
    \/ FetchDateRangesOk
    \/ FetchDateRangesFail
    \/ FetchPageOk
    \/ FetchPageFail
    \/ AppendRecord
    \/ CourseDone
    \/ NotifyNoWebhook
    \/ NotifyBuild
    \/ PostOk
    \/ PostFail

Init == InitRun

Spec == Init /\ [][Next]_vars

----------------------------------------------------------------------------
(* Properties of should_include_assignment (SpecFilter) *)

\* The window as the specification words it: the declared grading period is
\* one of period_ids, or due_at parses to d with start <= d <= end for some
\* range of the list.
GpInPeriods == fa.grading_period_id.has /\ fa.grading_period_id.v \in fpids

DueWithin(r) ==
    /\ fa.due_at.kind = "iso"
    /\ LET d == isoparse(fa.due_at)
       IN /\ d.aware = r.s.aware
          /\ d.aware = r.e.aware
          /\ r.s.t <= d.t
          /\ d.t <= r.e.t

DueInSomeRange == \E i \in 1..Len(franges) : DueWithin(franges[i])

InWindow == GpInPeriods \/ DueInSomeRange

IsMissing == fa.submission.present /\ fa.submission.missing = "True"

HasScore == fa.submission.present /\ fa.submission.score.has

HasPoints == fa.points_possible.has /\ fa.points_possible.v # 0

\* C3: an assignment whose grading_period_id is absent or not in period_ids
\* and whose due_at is absent, unparsable or outside every range is excluded,
\* whatever its submission says.
C3_OutsideWindowExcluded ==
    (fdone /\ ~GpInPeriods /\ ~DueInSomeRange) => (fres = FALSE)

C3_Witness ==
    /\ fdone
    /\ ~GpInPeriods
    /\ fa.grading_period_id.has
    /\ franges # <<>>
    /\ fa.due_at.kind = "iso"
    /\ ~DueInSomeRange
    /\ IsMissing
    /\ fres = FALSE

\* C4: an assignment of the window that is flagged missing is included for
\* every score and points_possible.
C4_MissingInWindowIncluded ==
    (fdone /\ InWindow /\ IsMissing) => (fres = TRUE)

\* C5: for an assignment of the window that is not missing and has a score
\* and non-zero points_possible, the result is true exactly when
\* score/points_possible*100 <= 50, equality included.
C5_ThresholdInclusive ==
    (fdone /\ InWindow /\ ~IsMissing /\ HasScore /\ HasPoints /\ fa.points_possible.v > 0)
        => (fres = (fa.submission.score.v * 100
                        <= low_score_threshold_percent * fa.points_possible.v))

\* C6: an assignment of the window that is not missing is excluded when it
\* has no score, or no points_possible, or points_possible = 0.
C6_UngradedExcluded ==
    (fdone /\ InWindow /\ ~IsMissing /\ (~HasScore \/ ~HasPoints)) => (fres = FALSE)

C6_Witness ==
    /\ fdone
    /\ InWindow
    /\ ~IsMissing
    /\ HasScore
    /\ fa.submission.score.v = 0
    /\ fa.points_possible = Some(0)
    /\ fres = FALSE

\* C10: with grading_period_id absent or not in period_ids, a missing
\* assignment whose due_at lies in some range (bounds included) is included.
C10_DateFallbackIncluded ==
    (fdone /\ ~GpInPeriods /\ franges # <<>> /\ DueInSomeRange /\ IsMissing)
        => (fres = TRUE)

----------------------------------------------------------------------------
(* Properties of a run (Spec) *)

CollectReturned == pc \in {"notify", "post", "exit0", "crash"}

AllAssignments(k) == Flatten(cdata[k].pages)

RECURSIVE RecordsFor(_, _)
RecordsFor(k, as) ==
    IF as = <<>> THEN <<>>
    ELSE <<_assignment_to_record(Course(k), Head(as))>> \o RecordsFor(k, Tail(as))

\* the Records of the eligible assignments of course k, in page order
EligibleRecords(k) ==
    RecordsFor(k, SelectSeq(AllAssignments(k),
        LAMBDA a : should_include_assignment(a,
                        get_q3_q4_period_ids(cdata[k].periods),
                        get_q3_q4_date_ranges(cdata[k].periods),
                        low_score_threshold_percent)))

RECURSIVE ExpectedFrom(_)
ExpectedFrom(k) ==
    IF k > Len(cdata) THEN <<>>
    ELSE (IF k \in failedCourses THEN <<>> ELSE EligibleRecords(k)) \o ExpectedFrom(k + 1)

\* C1: a failed grading-period or assignment request of a course never ends
\* the run with the error exit, and when collect_results returns its list is,
\* course by course in list order, nothing for a failed course and exactly
\* the Records of the eligible assignments for every other course.
C1_CourseFailureIsolated ==
    /\ pc = "exit1" => failedCourses = {}
    /\ CollectReturned => results = ExpectedFrom(1)

C1_Witness ==
    /\ CollectReturned
    /\ \E k \in failedCourses : \E j \in 1..Len(cdata) :
          /\ k < j
          /\ k \in assignFetches
          /\ EligibleRecords(k) # <<>>
          /\ j \notin failedCourses
          /\ EligibleRecords(j) # <<>>
    /\ results # <<>>

NotificationBuilt == pc \in {"post", "exit0", "crash"}

\* C2 as stated: a run whose Record list is empty has built exactly the one
\* "all clear" payload and never called the chunker.
C2_EmptyGivesAllClear ==
    (NotificationBuilt /\ results = <<>>)
        => (payloads = <<AllClearMessage>> /\ chunkCalls = 0)

\* C2: with a webhook url configured, a run whose Record list is empty builds
\* exactly the one "all clear" payload and never calls the chunker; without a
\* webhook url no payload is built at all.
C2_EmptyGivesAllClearIfConfigured ==
    /\ (NotificationBuilt /\ webhook /\ results = <<>>)
          => (payloads = <<AllClearMessage>> /\ chunkCalls = 0)
    /\ (NotificationBuilt /\ ~webhook) => (payloads = <<>> /\ chunkCalls = 0)

C2_Witness ==
    /\ pc = "exit0"
    /\ webhook
    /\ cdata # <<>>
    /\ assignFetches # {}
    /\ results = <<>>
    /\ payloads = <<AllClearMessage>>
    /\ posted = 1

\* C8: an assignment request is only ever issued for a course already
\* resolved to at least one period id or range; a course resolved to neither
\* gets no assignment request and has no Record.
C8_NoWindowNoFetch ==
    /\ \A k \in assignFetches :
          k \in resolved /\ (pids[k] # {} \/ ranges[k] # <<>>)
    /\ \A k \in resolved :
          (pids[k] = {} /\ ranges[k] = <<>>)
              => /\ k \notin assignFetches
                 /\ \A i \in 1..Len(results) : results[i].course_id # k

C8_Witness ==
    /\ CollectReturned
    /\ \E k \in resolved : pids[k] = {} /\ ranges[k] = <<>> /\ k \notin assignFetches
    /\ assignFetches # {}
    /\ results # <<>>

\* C9: at every point of a run every Record of the result list is the Record
\* of an assignment of its own course that should_include_assignment accepts
\* with that course's resolved period ids and ranges.
C9_RecordsAreEligible ==
    \A i \in 1..Len(results) :
        LET r == results[i]
            k == r.course_id
        IN /\ k \in resolved
           /\ \E n \in 1..Len(AllAssignments(k)) :
                 LET a == AllAssignments(k)[n]
                 IN /\ a.id = r.assignment_id
                    /\ should_include_assignment(a, pids[k], ranges[k],
                                                 low_score_threshold_percent)
                    /\ r = _assignment_to_record(Course(k), a)

C9_Witness ==
    /\ pc = "append"
    /\ Len(results) >= 2
    /\ \E n \in 1..Len(AllAssignments(ci)) :
          ~should_include_assignment(AllAssignments(ci)[n], pids[ci], ranges[ci],
                                     low_score_threshold_percent)
    /\ \E i \in 1..Len(results) : results[i].course_id = ci

====
